---- MODULE Spec2Model ----
(***************************************************************************)
(* Model of the dashboard client manager                                   *)
(* (src/app/backend/client/manager.go): construction of the manager, the   *)
(* per-request client/config resolution, CanI, HasAccess and the helpers   *)
(* they are built from.                                                    *)
(*                                                                         *)
(* Go strings that the code inspects (header values, header names,         *)
(* usernames, error texts) are sequences of one-character strings, so that *)
(* prefix tests, slicing and regular-expression matching are computed.     *)
(* Pointers to rest.Config are identifiers into `heap`; 0 is the nil       *)
(* pointer.  Every other nil (error, client, AuthInfo, request) is Nil.    *)
(***************************************************************************)
EXTENDS Integers, Sequences, FiniteSets, TLC

VARIABLES
    pc,                          \* "start" | "ready" | "panicked" (NewClientManager)
    csrfKey,                     \* clientManager.csrfKey
    kubeConfigPath,              \* clientManager.kubeConfigPath
    apiserverHost,               \* clientManager.apiserverHost
    inClusterConfig,             \* clientManager.inClusterConfig (*rest.Config)
    tokenManager,                \* clientManager.tokenManager
    insecureAPIExtensionsClient, \* clientManager.insecureAPIExtensionsClient
    insecurePluginClient,        \* clientManager.insecurePluginClient
    insecureClient,              \* clientManager.insecureClient
    insecureConfig,              \* clientManager.insecureConfig (*rest.Config)
    heap,                        \* the rest.Config objects the manager points to
    holder,                      \* args.Holder: the process-wide flags
    initTrace,                   \* what init() did, in order
    request,                     \* the request handle the dispatch layer is serving
    last                         \* the last public call: its inputs and what it returned

vars == <<pc, csrfKey, kubeConfigPath, apiserverHost, inClusterConfig, tokenManager,
          insecureAPIExtensionsClient, insecurePluginClient, insecureClient,
          insecureConfig, heap, holder, initTrace, request, last>>

mgrVars == <<csrfKey, kubeConfigPath, apiserverHost, inClusterConfig, tokenManager,
             insecureAPIExtensionsClient, insecurePluginClient, insecureClient,
             insecureConfig, heap>>

-----------------------------------------------------------------------------
(* Constants of the program *)

DefaultQPS == 1000000

DefaultBurst == 1000000

DefaultContentType == "application/vnd.kubernetes.protobuf"

DefaultCmdConfigName == "kubernetes"

DefaultUserAgent == "dashboard"

Version == "UNKNOWN"

\* "jweToken"
JWETokenHeader == <<"j","w","e","T","o","k","e","n">>

\* "Impersonate-Extra-"
ImpersonateUserExtraHeader ==
    <<"I","m","p","e","r","s","o","n","a","t","e","-","E","x","t","r","a","-">>

\* "Authorization"
HdrAuthorization == <<"A","u","t","h","o","r","i","z","a","t","i","o","n">>

\* "Impersonate-User"
HdrImpersonateUser ==
    <<"I","m","p","e","r","s","o","n","a","t","e","-","U","s","e","r">>

\* "Impersonate-Group"
HdrImpersonateGroup ==
    <<"I","m","p","e","r","s","o","n","a","t","e","-","G","r","o","u","p">>

\* "Bearer "
BearerPrefix == <<"B","e","a","r","e","r"," ">>

-----------------------------------------------------------------------------
(* Go values *)

Nil == [kind |-> "nil"]

EmptyString == <<>>

\* strings.HasPrefix
HasPrefix(s, prefix) ==
    /\ Len(s) >= Len(prefix)
    /\ SubSeq(s, 1, Len(prefix)) = prefix

\* s[n:]
SliceFrom(s, n) == SubSeq(s, n + 1, Len(s))

\* strings.TrimPrefix
TrimPrefix(s, prefix) == IF HasPrefix(s, prefix) THEN SliceFrom(s, Len(prefix)) ELSE s

\* errors.NewBadRequest / NewUnauthorized / NewInvalid and the errors of collaborators
Err(code, from) == [kind |-> "error", code |-> code, from |-> from]

\* a map[string][]string; a missing key reads as the nil slice
MapGet(h, name) == IF name \in DOMAIN h THEN h[name] ELSE <<>>

MapPut(h, name, values) ==
    [k \in (DOMAIN h) \cup {name} |-> IF k = name THEN values ELSE h[k]]

EmptyMap == [k \in {} |-> <<>>]

\* F(v), with v computed once: the local variable of a function body
With(v, F(_)) == CHOOSE r \in {F(c) : c \in {v}} : TRUE

-----------------------------------------------------------------------------
(* Objects.  `heap` is the sequence of allocated objects; a pointer is an  *)
(* index into it and 0 is nil.  An operator that allocates or writes takes *)
(* the manager record m (the struct fields plus heap) and returns it       *)
(* changed. Objects a request allocates are dropped when the call returns. *)

NilPtr == 0

Alloc(h, obj) == Append(h, obj)

NewPtr(h) == Len(h) + 1

\* the identity a base (not per-request) rest.Config carries
SharedIdentity(source) == [kind |-> "shared", source |-> source]

\* a rest.Config as clientcmd / rest.InClusterConfig produce it: no QPS, Burst,
\* content type or user agent set
RestConfig(host, identity) ==
    [kind |-> "config", Host |-> host, QPS |-> 0, Burst |-> 0,
     ContentType |-> "", UserAgent |-> <<>>, AuthInfo |-> identity]

\* <family>.NewForConfig(cfg): the client keeps a copy of the config
NewForConfig(family, cfg) == [kind |-> "client", family |-> family, config |-> cfg]

Families == {"kubernetes", "apiextensions", "plugin"}

\* the struct as NewClientManager allocates it
NewManager(path, host) ==
    [csrfKey |-> EmptyString, kubeConfigPath |-> path, apiserverHost |-> host,
     inClusterConfig |-> NilPtr, tokenManager |-> Nil,
     insecureAPIExtensionsClient |-> NilPtr, insecurePluginClient |-> NilPtr,
     insecureClient |-> NilPtr, insecureConfig |-> NilPtr,
     heap |-> <<>>, panic |-> Nil, trace |-> <<>>]

\* the manager as the state variables hold it
Self ==
    [csrfKey |-> csrfKey, kubeConfigPath |-> kubeConfigPath,
     apiserverHost |-> apiserverHost, inClusterConfig |-> inClusterConfig,
     tokenManager |-> tokenManager,
     insecureAPIExtensionsClient |-> insecureAPIExtensionsClient,
     insecurePluginClient |-> insecurePluginClient,
     insecureClient |-> insecureClient, insecureConfig |-> insecureConfig,
     heap |-> heap, panic |-> Nil, trace |-> initTrace]

Traced(m, what) == [m EXCEPT !.trace = Append(@, what)]

Panic(m, err) == [m EXCEPT !.panic = err]

-----------------------------------------------------------------------------
(* Config Builder *)

\* initConfig: the four tuning defaults, written through the pointer
initConfig(cfg) ==
    [cfg EXCEPT !.QPS = DefaultQPS,
                !.Burst = DefaultBurst,
                !.ContentType = DefaultContentType,
                !.UserAgent = <<DefaultUserAgent, "/", Version>>]

\* isRunningInCluster
isRunningInCluster(m) == m.inClusterConfig # NilPtr

\* the host a config loaded from the flags names
FlagsHost(host, path) == IF Len(host) > 0 THEN host ELSE <<"kubeconfig", path>>

\* buildConfigFromFlags.  loaded: whether the deferred-loading client config
\* resolves (read only when a flag is set).  Returns the manager (its heap may
\* hold a new config), the config pointer and the error.
buildConfigFromFlags(m, host, path, loaded) ==
    IF Len(path) > 0 \/ Len(host) > 0
      THEN IF loaded
             THEN [m |-> [m EXCEPT !.heap = Alloc(@, RestConfig(FlagsHost(host, path),
                                                               SharedIdentity("flags")))],
                   cfg |-> NewPtr(m.heap), err |-> Nil]
             ELSE [m |-> m, cfg |-> NilPtr, err |-> Err("Other", "clientcmd")]
      ELSE IF isRunningInCluster(m)
             THEN [m |-> m, cfg |-> m.inClusterConfig, err |-> Nil]
             ELSE [m |-> m, cfg |-> NilPtr, err |-> Err("Invalid", "buildConfigFromFlags")]

-----------------------------------------------------------------------------
(* Construction.  env is what the environment answers during init():        *)
(*   inCluster : rest.InClusterConfig() succeeds                           *)
(*   loaded    : the flags' client config resolves                         *)
(*   clients   : for each family, NewForConfig succeeds                    *)
(*   key       : the key GenerateCSRFKey / the secret's token yields       *)

InitEnvs ==
    [inCluster : BOOLEAN, loaded : BOOLEAN, clients : [Families -> BOOLEAN],
     key : {"key1", "key2"}]

\* initInClusterConfig
initInClusterConfig(m0, env) ==
    With(Traced(m0, "initInClusterConfig"), LAMBDA m :
      IF Len(m.apiserverHost) > 0 \/ Len(m.kubeConfigPath) > 0
        THEN Traced(m, "Skipping in-cluster config")
        ELSE IF ~env.inCluster
               THEN Traced(m, "Could not init in cluster config")
               ELSE [m EXCEPT !.heap = Alloc(@, RestConfig(<<"in-cluster">>,
                                                          SharedIdentity("in-cluster"))),
                              !.inClusterConfig = NewPtr(m.heap)])

\* initInsecureConfig
initInsecureConfig(m0, env) ==
    With(Traced(m0, "initInsecureConfig"), LAMBDA m :
    With(buildConfigFromFlags(m, m.apiserverHost, m.kubeConfigPath, env.loaded), LAMBDA r :
      IF r.err # Nil
        THEN Panic(r.m, r.err)
        ELSE [r.m EXCEPT !.heap = [@ EXCEPT ![r.cfg] = initConfig(@)],
                         !.insecureConfig = r.cfg]))

\* initInsecureClients
initInsecureClients(m0, env) ==
    With(initInsecureConfig(Traced(m0, "initInsecureClients"), env), LAMBDA m :
      IF m.panic # Nil THEN m
      ELSE IF ~env.clients["kubernetes"]
        THEN Panic(m, Err("Other", "kubernetes.NewForConfig"))
      ELSE IF ~env.clients["apiextensions"]
        THEN Panic(m, Err("Other", "apiextensions.NewForConfig"))
      ELSE IF ~env.clients["plugin"]
        THEN Panic(m, Err("Other", "plugin.NewForConfig"))
      ELSE [m EXCEPT !.heap = @ \o <<NewForConfig("kubernetes", m.heap[m.insecureConfig]),
                                     NewForConfig("apiextensions", m.heap[m.insecureConfig]),
                                     NewForConfig("plugin", m.heap[m.insecureConfig])>>,
                     !.insecureClient = Len(m.heap) + 1,
                     !.insecureAPIExtensionsClient = Len(m.heap) + 2,
                     !.insecurePluginClient = Len(m.heap) + 3])

\* initCSRFKey
initCSRFKey(m0, env) ==
    With(Traced(m0, "initCSRFKey"), LAMBDA m :
      IF m.inClusterConfig = NilPtr
        THEN Traced([m EXCEPT !.csrfKey = <<"random", env.key>>], "csrfKey set")
        ELSE Traced([m EXCEPT !.csrfKey = <<"secret", env.key>>], "csrfKey set"))

\* init writing the signing key before it builds the insecure clients
init_KeyFirst(m, env) ==
    initInsecureClients(initCSRFKey(initInClusterConfig(m, env), env), env)

\* init: the three steps in order; a panic in one skips the rest
init(m, env) ==
    With(initInsecureClients(initInClusterConfig(m, env), env), LAMBDA m2 :
      IF m2.panic # Nil THEN m2 ELSE initCSRFKey(m2, env))

-----------------------------------------------------------------------------
(* Requests.  A *restful.Request is Nil or a record of its TLS state and    *)
(* its header map (header name -> list of values, as net/http holds it).   *)

Request(tls, header) == [kind |-> "request", TLS |-> tls, Header |-> header]

\* req.HeaderParameter(name): the first value of the header, "" without one
HeaderParameter(req, name) ==
    LET values == MapGet(req.Header, name)
    IN  IF Len(values) > 0 THEN values[1] ELSE EmptyString

\* api.AuthInfo
AuthInfo(token, impersonate, groups, extra) ==
    [kind |-> "authinfo", Token |-> token, Impersonate |-> impersonate,
     ImpersonateGroups |-> groups, ImpersonateUserExtra |-> extra]

-----------------------------------------------------------------------------
(* Credential Extractor *)

\* extractTokenFromHeader
extractTokenFromHeader(authHeader) ==
    IF HasPrefix(authHeader, BearerPrefix)
      THEN TrimPrefix(authHeader, BearerPrefix)
      ELSE EmptyString

\* the loop keeping only the first value of each extra header
ImpersonateUserExtraOf_FirstValue(header) ==
    LET names == {n \in DOMAIN header : HasPrefix(n, ImpersonateUserExtraHeader)}
        keys == {SliceFrom(n, Len(ImpersonateUserExtraHeader)) : n \in names}
    IN  [k \in keys |-> SubSeq(header[ImpersonateUserExtraHeader \o k], 1, 1)]

\* the loop over req.Request.Header of extractAuthInfo: every header whose name
\* has the extra prefix, keyed by the rest of its name (nil map without one)
ImpersonateUserExtraOf(header) ==
    LET names == {n \in DOMAIN header : HasPrefix(n, ImpersonateUserExtraHeader)}
        keys == {SliceFrom(n, Len(ImpersonateUserExtraHeader)) : n \in names}
    IN  [k \in keys |-> header[ImpersonateUserExtraHeader \o k]]

\* extractAuthInfo asking the token manager before it looks at the
\* Authorization header
extractAuthInfo_DecryptFirst(m, req, decrypt) ==
    IF req = Nil
      THEN [info |-> Nil, err |-> Nil, decrypted |-> FALSE, panic |-> TRUE]
      ELSE
        LET authHeader == HeaderParameter(req, HdrAuthorization)
            impersonationHeader == HeaderParameter(req, HdrImpersonateUser)
            jweToken == HeaderParameter(req, JWETokenHeader)
            token == extractTokenFromHeader(authHeader)
            groupsImpersonationHeader == MapGet(req.Header, HdrImpersonateGroup)
        IN  IF m.tokenManager # Nil /\ Len(jweToken) > 0
              THEN [info |-> decrypt.info, err |-> decrypt.err,
                    decrypted |-> TRUE, panic |-> FALSE]
              ELSE IF Len(token) > 0
                     THEN [info |-> IF Len(impersonationHeader) > 0
                                      THEN AuthInfo(token, impersonationHeader,
                                                    groupsImpersonationHeader,
                                                    ImpersonateUserExtraOf(req.Header))
                                      ELSE AuthInfo(token, EmptyString, <<>>, EmptyMap),
                           err |-> Nil, decrypted |-> FALSE, panic |-> FALSE]
                     ELSE [info |-> Nil, err |-> Err("Unauthorized", "extractAuthInfo"),
                           decrypted |-> FALSE, panic |-> FALSE]

\* extractAuthInfo.  decrypt: what tokenManager.Decrypt answers if it is called.
\* Returns info, err, whether Decrypt was called, and panic for the nil
\* dereference of req.HeaderParameter on a nil request.
extractAuthInfo(m, req, decrypt) ==
    IF req = Nil
      THEN [info |-> Nil, err |-> Nil, decrypted |-> FALSE, panic |-> TRUE]
      ELSE
        LET authHeader == HeaderParameter(req, HdrAuthorization)
            impersonationHeader == HeaderParameter(req, HdrImpersonateUser)
            jweToken == HeaderParameter(req, JWETokenHeader)
            token == extractTokenFromHeader(authHeader)
            groupsImpersonationHeader == MapGet(req.Header, HdrImpersonateGroup)
        IN  IF Len(token) > 0
              THEN [info |-> IF Len(impersonationHeader) > 0
                               THEN AuthInfo(token, impersonationHeader,
                                             groupsImpersonationHeader,
                                             ImpersonateUserExtraOf(req.Header))
                               ELSE AuthInfo(token, EmptyString, <<>>, EmptyMap),
                    err |-> Nil, decrypted |-> FALSE, panic |-> FALSE]
              ELSE IF m.tokenManager # Nil /\ Len(jweToken) > 0
                     THEN [info |-> decrypt.info, err |-> decrypt.err,
                           decrypted |-> TRUE, panic |-> FALSE]
                     ELSE [info |-> Nil, err |-> Err("Unauthorized", "extractAuthInfo"),
                           decrypted |-> FALSE, panic |-> FALSE]

\* containsAuthInfo
containsAuthInfo(req) ==
    LET authHeader == HeaderParameter(req, HdrAuthorization)
        jweToken == HeaderParameter(req, JWETokenHeader)
    IN  Len(authHeader) > 0 \/ Len(jweToken) > 0

-----------------------------------------------------------------------------
(* Mode Decider *)

\* isLoginEnabled
isLoginEnabled(req, h) == req.TLS \/ h.EnableInsecureLogin

\* isSecureModeEnabled without its second case: with skip-login allowed a
\* request is never served in secure mode, whatever it carries
isSecureModeEnabled_NoSecondCase(req, h) == isLoginEnabled(req, h) /\ ~h.EnableSkipLogin

\* isSecureModeEnabled
isSecureModeEnabled(req, h) ==
    IF isLoginEnabled(req, h) /\ ~h.EnableSkipLogin
      THEN TRUE
      ELSE isLoginEnabled(req, h) /\ h.EnableSkipLogin /\ containsAuthInfo(req)

-----------------------------------------------------------------------------
(* Username parsing *)

Letters == {"a","b","c","d","e","f","g","h","i","j","k","l","m","n","o","p","q",
            "r","s","t","u","v","w","x","y","z"}

Digits == {"0","1","2","3","4","5","6","7","8","9"}

\* the class [\w-] (and [\w-_], which is the same set): letters, digits, _ and -
WordOrDash(c) == c \in Letters \cup Digits \cup {"_", "-"}

\* the length of the longest run of class characters of s that starts at i
RECURSIVE RunLength(_, _)
RunLength(s, i) ==
    IF i > Len(s) \/ ~WordOrDash(s[i]) THEN 0 ELSE 1 + RunLength(s, i + 1)

IsColonAt(s, i) == i <= Len(s) /\ s[i] = ":"

\* The match of ([\w-]+):([\w-]+):([\w-_]+):([\w-]+) that starts at i, as the
\* bounds of its fourth group, or Nil.  A colon is outside the class, so each
\* greedy group is the whole run of class characters and nothing backtracks.
MatchAt(s, i) ==
    LET n1 == RunLength(s, i)
        i2 == i + n1 + 1
        n2 == RunLength(s, i2)
        i3 == i2 + n2 + 1
        n3 == RunLength(s, i3)
        i4 == i3 + n3 + 1
        n4 == RunLength(s, i4)
    IN  IF /\ n1 > 0 /\ IsColonAt(s, i + n1)
           /\ n2 > 0 /\ IsColonAt(s, i2 + n2)
           /\ n3 > 0 /\ IsColonAt(s, i3 + n3)
           /\ n4 > 0
          THEN [kind |-> "match", from |-> i4, to |-> i4 + n4 - 1]
          ELSE Nil

\* re.FindStringSubmatch: the leftmost match (the pattern is not anchored)
FindStringSubmatch(s) ==
    LET starts == {i \in 1..Len(s) : MatchAt(s, i) # Nil}
    IN  IF starts = {} THEN Nil
        ELSE MatchAt(s, CHOOSE i \in starts : \A k \in starts : i <= k)

\* getUsername
getUsername(name) ==
    With(FindStringSubmatch(name), LAMBDA match :
      IF match = Nil THEN name ELSE SubSeq(name, match.from, match.to))

\* ` User "`
ReUserOpen == <<" ","U","s","e","r"," ","\"">>

\* `" cannot `
ReCannot == <<"\""," ","c","a","n","n","o","t"," ">>

OccursAt(s, i, lit) ==
    /\ i >= 1
    /\ i + Len(lit) - 1 <= Len(s)
    /\ SubSeq(s, i, i + Len(lit) - 1) = lit

\* getUsernameFromError on the text of the error: the whole text is replaced by
\* group 1 of ^.* User "(.*)" cannot .*$ when it matches (both .* greedy, and .
\* matches no line break), and is returned as it is otherwise.
getUsernameFromError(text) ==
    LET opens(i) == {j \in (i + Len(ReUserOpen))..Len(text) : OccursAt(text, j, ReCannot)}
        starts == {i \in 1..Len(text) : OccursAt(text, i, ReUserOpen) /\ opens(i) # {}}
        first == CHOOSE i \in starts : \A k \in starts : k <= i
        close == CHOOSE j \in opens(first) : \A k \in opens(first) : k <= j
    IN  IF starts = {} \/ \E i \in 1..Len(text) : text[i] = "\n"
          THEN text
          ELSE SubSeq(text, first + Len(ReUserOpen), close - 1)

-----------------------------------------------------------------------------
(* Per-request resolution.  env is what the collaborators answer while one  *)
(* client or config is resolved:                                           *)
(*   decrypt  : tokenManager.Decrypt's (info, err)                         *)
(*   loaded   : the flags' client config resolves (buildConfigFromFlags)   *)
(*   resolved : cmdConfig.ClientConfig() succeeds                          *)
(*   created  : <family>.NewForConfig succeeds                             *)

\* buildCmdConfig: one cluster, one identity and one context, all under
\* DefaultCmdConfigName
buildCmdConfig(authInfo, cfg) ==
    [kind |-> "cmdconfig",
     Clusters |-> [n \in {DefaultCmdConfigName} |-> [Server |-> cfg.Host]],
     AuthInfos |-> [n \in {DefaultCmdConfigName} |-> authInfo],
     Contexts |-> [n \in {DefaultCmdConfigName} |->
                     [Cluster |-> DefaultCmdConfigName, AuthInfo |-> DefaultCmdConfigName]],
     CurrentContext |-> DefaultCmdConfigName]

\* clientConfig.ClientConfig() on a config of buildCmdConfig: a new rest.Config
\* for the current context's cluster and identity
ClientConfigOf(cmd) ==
    LET ctx == cmd.Contexts[cmd.CurrentContext]
    IN  RestConfig(cmd.Clusters[ctx.Cluster].Server, cmd.AuthInfos[ctx.AuthInfo])

\* what a resolution returns: the manager (its heap holds what was built),
\* the pointer, the error, and whether the nil request was dereferenced;
\* info and decrypted: what extraction returned and whether it called Decrypt
Result(m, ptr, err, panic, e) ==
    [m |-> m, ptr |-> ptr, err |-> err, panic |-> panic,
     info |-> e.info, decrypted |-> e.decrypted]

\* ClientCmdConfig
ClientCmdConfig(m, req, env) ==
    With(extractAuthInfo(m, req, env.decrypt), LAMBDA e :
      IF e.panic \/ e.err # Nil
        THEN [m |-> m, cmd |-> Nil, err |-> e.err, panic |-> e.panic,
              info |-> e.info, decrypted |-> e.decrypted]
        ELSE
          With(buildConfigFromFlags(m, m.apiserverHost, m.kubeConfigPath, env.loaded),
               LAMBDA r :
            IF r.err # Nil
              THEN [m |-> r.m, cmd |-> Nil, err |-> r.err, panic |-> FALSE,
                    info |-> e.info, decrypted |-> e.decrypted]
              ELSE [m |-> r.m, cmd |-> buildCmdConfig(e.info, r.m.heap[r.cfg]),
                    err |-> Nil, panic |-> FALSE,
                    info |-> e.info, decrypted |-> e.decrypted]))

\* secureConfig answering a failed ClientCmdConfig with the insecure config
\* instead of the error
secureConfig_FallsBack(m, req, env) ==
    With(ClientCmdConfig(m, req, env), LAMBDA c :
      IF c.panic THEN Result(c.m, NilPtr, c.err, c.panic, c)
      ELSE IF c.err # Nil
        THEN Result(c.m, c.m.insecureConfig, Nil, FALSE, c)
      ELSE IF ~env.resolved
        THEN Result(c.m, NilPtr, Err("Other", "cmdConfig.ClientConfig"), FALSE, c)
      ELSE Result([c.m EXCEPT !.heap = Alloc(@, initConfig(ClientConfigOf(c.cmd)))],
                  NewPtr(c.m.heap), Nil, FALSE, c))

\* secureConfig
secureConfig(m, req, env) ==
    With(ClientCmdConfig(m, req, env), LAMBDA c :
      IF c.panic \/ c.err # Nil
        THEN Result(c.m, NilPtr, c.err, c.panic, c)
      ELSE IF ~env.resolved
        THEN Result(c.m, NilPtr, Err("Other", "cmdConfig.ClientConfig"), FALSE, c)
      ELSE Result([c.m EXCEPT !.heap = Alloc(@, initConfig(ClientConfigOf(c.cmd)))],
                  NewPtr(c.m.heap), Nil, FALSE, c))

\* the body the three secure client constructors share: secureConfig, then
\* the family's NewForConfig
SecureClientFor(m, req, env, family) ==
    With(secureConfig(m, req, env), LAMBDA c :
      IF c.panic \/ c.err # Nil THEN c
      ELSE IF ~env.created
        THEN [c EXCEPT !.ptr = NilPtr, !.err = Err("Other", "NewForConfig")]
      ELSE [c EXCEPT !.m.heap = Alloc(@, NewForConfig(family, c.m.heap[c.ptr])),
                     !.ptr = NewPtr(c.m.heap)])

\* secureClient
secureClient(m, req, env) == SecureClientFor(m, req, env, "kubernetes")

\* secureAPIExtensionsClient
secureAPIExtensionsClient(m, req, env) == SecureClientFor(m, req, env, "apiextensions")

\* securePluginClient
securePluginClient(m, req, env) == SecureClientFor(m, req, env, "plugin")

\* a result that names ptr and nothing else
Returned(m, ptr, err) ==
    [m |-> m, ptr |-> ptr, err |-> err, panic |-> FALSE, info |-> Nil, decrypted |-> FALSE]


\* InsecureClient
InsecureClient(m) == m.insecureClient

\* InsecureAPIExtensionsClient
InsecureAPIExtensionsClient(m) == m.insecureAPIExtensionsClient

\* InsecurePluginClient
InsecurePluginClient(m) == m.insecurePluginClient

\* InsecureConfig
InsecureConfig(m) == m.insecureConfig

\* CSRFKey
CSRFKey(m) == m.csrfKey

\* r with the mode the call decided on ("none" before any decision)
WithMode(r, mode) == [f \in (DOMAIN r) \cup {"mode"} |-> IF f = "mode" THEN mode ELSE r[f]]

\* Client keeping the secure client it built in the manager, in place of the
\* insecure one
Client_CachesSecure(m, req, h, env) ==
    IF req = Nil THEN WithMode(Returned(m, NilPtr, Err("BadRequest", "Client")), "none")
    ELSE IF isSecureModeEnabled(req, h)
      THEN With(secureClient(m, req, env), LAMBDA c :
             IF c.panic \/ c.err # Nil THEN WithMode(c, "secure")
             ELSE WithMode([c EXCEPT !.m.insecureClient = c.ptr], "secure"))
    ELSE WithMode(Returned(m, InsecureClient(m), Nil), "insecure")

\* Client
Client(m, req, h, env) ==
    IF req = Nil THEN WithMode(Returned(m, NilPtr, Err("BadRequest", "Client")), "none")
    ELSE IF isSecureModeEnabled(req, h) THEN WithMode(secureClient(m, req, env), "secure")
    ELSE WithMode(Returned(m, InsecureClient(m), Nil), "insecure")

\* APIExtensionsClient
APIExtensionsClient(m, req, h, env) ==
    IF req = Nil
      THEN WithMode(Returned(m, NilPtr, Err("BadRequest", "APIExtensionsClient")), "none")
    ELSE IF isSecureModeEnabled(req, h)
      THEN WithMode(secureAPIExtensionsClient(m, req, env), "secure")
    ELSE WithMode(Returned(m, InsecureAPIExtensionsClient(m), Nil), "insecure")

\* PluginClient
PluginClient(m, req, h, env) ==
    IF req = Nil
      THEN WithMode(Returned(m, NilPtr, Err("BadRequest", "PluginClient")), "none")
    ELSE IF isSecureModeEnabled(req, h)
      THEN WithMode(securePluginClient(m, req, env), "secure")
    ELSE WithMode(Returned(m, InsecurePluginClient(m), Nil), "insecure")

\* Config
Config(m, req, h, env) ==
    IF req = Nil
      THEN WithMode(Returned(m, NilPtr, Err("BadRequest", "Config")), "none")
    ELSE IF isSecureModeEnabled(req, h)
      THEN WithMode(secureConfig(m, req, env), "secure")
    ELSE WithMode(Returned(m, InsecureConfig(m), Nil), "insecure")

\* the object a pointer of a call's result names
Deref(r) == IF r.ptr = NilPtr THEN Nil ELSE r.m.heap[r.ptr]

-----------------------------------------------------------------------------
(* Authorize *)

\* what CanI returns (allowed, or panic for the nil dereference) and what it
\* did: submitted, whether the review was sent; via and client, the client it
\* was sent through; info and extractErr, what CanI's own extraction returned;
\* err, the error it logged
Verdict(allowed, panic, c, e, err) ==
    [allowed |-> allowed, panic |-> panic, submitted |-> c # Nil,
     via |-> IF c = Nil THEN NilPtr ELSE c.ptr,
     client |-> IF c = Nil THEN Nil ELSE Deref(c),
     info |-> e.info, extractErr |-> e.err, err |-> err]

\* CanI without the return for a failed extraction on a deployment with
\* certificates: the call goes on to Client
CanI_NoCertCheck(m, req, h, decrypt, env, review) ==
    With(extractAuthInfo(m, req, decrypt), LAMBDA e :
      IF e.panic
        THEN Verdict(FALSE, TRUE, Nil, e, Nil)
      ELSE
        With(Client(m, req, h, env), LAMBDA c :
          IF c.err # Nil
            THEN Verdict(FALSE, FALSE, Nil, e, c.err)
          ELSE IF review = "error"
            THEN Verdict(FALSE, FALSE, c, e, Err("Other", "SelfSubjectAccessReviews.Create"))
          ELSE Verdict(review = "allowed", FALSE, c, e, Nil)))

\* CanI.  decrypt: what Decrypt answers to CanI's own extraction; env: what the
\* collaborators answer while Client resolves; review: what the cluster answers
\* to the self-subject access review ("allowed", "denied" or "error").
CanI(m, req, h, decrypt, env, review) ==
    With(extractAuthInfo(m, req, decrypt), LAMBDA e :
      IF e.panic
        THEN Verdict(FALSE, TRUE, Nil, e, Nil)
      ELSE IF e.info = Nil /\ Len(h.CertFile) > 0 /\ Len(h.KeyFile) > 0
        THEN Verdict(FALSE, FALSE, Nil, e, Nil)
      ELSE
        With(Client(m, req, h, env), LAMBDA c :
          IF c.err # Nil
            THEN Verdict(FALSE, FALSE, Nil, e, c.err)
          ELSE IF review = "error"
            THEN Verdict(FALSE, FALSE, c, e, Err("Other", "SelfSubjectAccessReviews.Create"))
          ELSE Verdict(review = "allowed", FALSE, c, e, Nil)))

-----------------------------------------------------------------------------
(* Access Probe *)

\* an error of the cluster: its reason and its text
StatusErr(code, text) == [kind |-> "error", code |-> code, from |-> "cluster", text |-> text]

\* k8serrors.IsForbidden
IsForbidden(err) == err.code = "Forbidden"

\* what HasAccess returns (name, err) and what it did: calls, the cluster
\* calls made, in order; config, the config its client was built from
Probe(name, err, calls, config) ==
    [name |-> name, err |-> err, calls |-> calls, config |-> config]

\* HasAccess returning the error of a forbidden token review
HasAccess_ReviewForbiddenFails(m, authInfo, env, version, review, username) ==
    With(buildConfigFromFlags(m, m.apiserverHost, m.kubeConfigPath, env.loaded), LAMBDA r :
      IF r.err # Nil
        THEN Probe(EmptyString, r.err, <<>>, Nil)
      ELSE IF ~env.resolved
        THEN Probe(EmptyString, Err("Other", "cmdConfig.ClientConfig"), <<>>, Nil)
      ELSE IF ~env.created
        THEN Probe(EmptyString, Err("Other", "NewForConfig"), <<>>, Nil)
      ELSE
        With(ClientConfigOf(buildCmdConfig(authInfo, r.m.heap[r.cfg])), LAMBDA cfg :
          IF version # Nil
            THEN IF IsForbidden(version)
                   THEN Probe(getUsernameFromError(version.text), version,
                              <<"ServerVersion">>, cfg)
                   ELSE Probe(EmptyString, version, <<"ServerVersion">>, cfg)
          ELSE IF review # Nil
            THEN IF IsForbidden(review)
                   THEN Probe(getUsernameFromError(review.text), review,
                              <<"ServerVersion", "TokenReviews.Create">>, cfg)
                   ELSE Probe(EmptyString, review,
                              <<"ServerVersion", "TokenReviews.Create">>, cfg)
          ELSE Probe(getUsername(username), Nil,
                     <<"ServerVersion", "TokenReviews.Create">>, cfg)))

\* HasAccess.  env as above; version: the error of client.ServerVersion() or
\* Nil; review: the error of TokenReviews().Create or Nil; username: the
\* Status.User.Username of a review that succeeded.
HasAccess(m, authInfo, env, version, review, username) ==
    With(buildConfigFromFlags(m, m.apiserverHost, m.kubeConfigPath, env.loaded), LAMBDA r :
      IF r.err # Nil
        THEN Probe(EmptyString, r.err, <<>>, Nil)
      ELSE IF ~env.resolved
        THEN Probe(EmptyString, Err("Other", "cmdConfig.ClientConfig"), <<>>, Nil)
      ELSE IF ~env.created
        THEN Probe(EmptyString, Err("Other", "NewForConfig"), <<>>, Nil)
      ELSE
        With(ClientConfigOf(buildCmdConfig(authInfo, r.m.heap[r.cfg])), LAMBDA cfg :
          IF version # Nil
            THEN IF IsForbidden(version)
                   THEN Probe(getUsernameFromError(version.text), version,
                              <<"ServerVersion">>, cfg)
                   ELSE Probe(EmptyString, version, <<"ServerVersion">>, cfg)
          ELSE IF review # Nil
            THEN IF IsForbidden(review)
                   THEN Probe(getUsernameFromError(review.text), Nil,
                              <<"ServerVersion", "TokenReviews.Create">>, cfg)
                   ELSE Probe(EmptyString, review,
                              <<"ServerVersion", "TokenReviews.Create">>, cfg)
          ELSE Probe(getUsername(username), Nil,
                     <<"ServerVersion", "TokenReviews.Create">>, cfg)))

-----------------------------------------------------------------------------
(* Resource verber *)

\* VerberClient.  envs: what the collaborators answer during each of the three
\* resolutions; rest: whether GetExtensionsAPIRestClient succeeds.
VerberClient(m, req, h, envs, rest) ==
    With(Client(m, req, h, envs[1]), LAMBDA k8sClient :
      IF k8sClient.err # Nil THEN [verber |-> Nil, err |-> k8sClient.err]
      ELSE
        With(APIExtensionsClient(m, req, h, envs[2]), LAMBDA apiextensionsclient :
          IF apiextensionsclient.err # Nil
            THEN [verber |-> Nil, err |-> apiextensionsclient.err]
          ELSE
            With(PluginClient(m, req, h, envs[3]), LAMBDA pluginsclient :
              IF pluginsclient.err # Nil
                THEN [verber |-> Nil, err |-> pluginsclient.err]
              ELSE IF ~rest
                THEN [verber |-> Nil, err |-> Err("Other", "GetExtensionsAPIRestClient")]
              ELSE [verber |-> [kind |-> "verber", client |-> Deref(k8sClient),
                                apiextensions |-> Deref(apiextensionsclient),
                                plugin |-> Deref(pluginsclient)],
                    err |-> Nil])))

\* SetTokenManager
SetTokenManager(m, manager) == [m EXCEPT !.tokenManager = manager]

BootstrapStrings == {EmptyString, <<"x">>}

Holders ==
    [EnableInsecureLogin : BOOLEAN, EnableSkipLogin : BOOLEAN,
     CertFile : BootstrapStrings, KeyFile : BootstrapStrings]

NoCall == [op |-> "none"]

Init ==
    /\ pc = "start"
    /\ csrfKey = EmptyString
    /\ kubeConfigPath = EmptyString
    /\ apiserverHost = EmptyString
    /\ inClusterConfig = NilPtr
    /\ tokenManager = Nil
    /\ insecureAPIExtensionsClient = NilPtr
    /\ insecurePluginClient = NilPtr
    /\ insecureClient = NilPtr
    /\ insecureConfig = NilPtr
    /\ heap = <<>>
    /\ holder \in Holders
    /\ initTrace = <<>>
    /\ request = Nil
    /\ last = NoCall

\* writes the struct fields of m to the state variables
Store(m) ==
    /\ csrfKey' = m.csrfKey
    /\ kubeConfigPath' = m.kubeConfigPath
    /\ apiserverHost' = m.apiserverHost
    /\ inClusterConfig' = m.inClusterConfig
    /\ tokenManager' = m.tokenManager
    /\ insecureAPIExtensionsClient' = m.insecureAPIExtensionsClient
    /\ insecurePluginClient' = m.insecurePluginClient
    /\ insecureClient' = m.insecureClient
    /\ insecureConfig' = m.insecureConfig
    /\ heap' = m.heap

\* NewClientManager(kubeConfigPath, apiserverHost)
NewClientManager ==
    /\ pc = "start"
    /\ \E path \in BootstrapStrings, host \in BootstrapStrings, env \in InitEnvs :
         \E m \in {init(NewManager(path, host), env)} :
             /\ Store(m)
             /\ initTrace' = m.trace
             /\ pc' = IF m.panic # Nil THEN "panicked" ELSE "ready"
             /\ last' = [op |-> "NewClientManager", inClusterLoaded |-> env.inCluster,
                         panic |-> m.panic]
    /\ UNCHANGED <<holder, request>>

-----------------------------------------------------------------------------
(* Inputs *)

\* "t": the token of a bearer header
BearerToken == <<"t">>

\* the values an Authorization header takes: "Bearer t", "Bearer " (the prefix
\* and nothing after it) and "Basic" (a credential that is no bearer token)
AuthorizationValues ==
    {BearerPrefix \o BearerToken, BearerPrefix, <<"B","a","s","i","c">>}

\* "alice"
ImpersonatedUser == <<"a","l","i","c","e">>

\* "Impersonate-Extra-reason"
HdrExtraReason == ImpersonateUserExtraHeader \o <<"r","e","a","s","o","n">>

\* "audit", "followup"
ExtraValues == {<<"a","u","d","i","t">>, <<"f","o","l","l","o","w","u","p">>}

\* "dev", "ops"
GroupValues == {<<"d","e","v">>, <<"o","p","s">>}

\* the most values one repeated header carries
MaxValues == 2

\* the lists of 0..MaxValues values of a repeated header
ValueLists(values) == UNION {[1..n -> values] : n \in 0..MaxValues}

\* a header map from the value list of each header; a header with no value is
\* not in the map
HeaderOf(lists) == [n \in {k \in DOMAIN lists : Len(lists[k]) > 0} |-> lists[n]]

One(values) == {<<>>} \cup {<<v>> : v \in values}

HeaderNames ==
    {HdrAuthorization, JWETokenHeader, HdrImpersonateUser, HdrImpersonateGroup,
     HdrExtraReason}

\* every header map over the five headers (the extraction inputs)
AllHeaders ==
    {HeaderOf([n \in HeaderNames |->
                 CASE n = HdrAuthorization -> a
                   [] n = JWETokenHeader -> j
                   [] n = HdrImpersonateUser -> u
                   [] n = HdrImpersonateGroup -> g
                   [] n = HdrExtraReason -> x]) :
        a \in One(AuthorizationValues), j \in One({<<"j">>}),
        u \in One({ImpersonatedUser}), g \in ValueLists(GroupValues),
        x \in ValueLists(ExtraValues)}

\* the header maps of the requests the manager serves: the two credential
\* headers in every combination (impersonation and an Authorization header of
\* the bare prefix are inputs of extraction)
ServedHeaders ==
    {h \in AllHeaders :
        /\ DOMAIN h \subseteq {HdrAuthorization, JWETokenHeader}
        /\ MapGet(h, HdrAuthorization) # <<BearerPrefix>>}

Requests == {Request(tls, h) : tls \in BOOLEAN, h \in ServedHeaders}

\* what tokenManager.Decrypt answers: a descriptor, or an error and no descriptor
DecryptResults ==
    {[info |-> AuthInfo(<<"j","w","e">>, EmptyString, <<>>, EmptyMap), err |-> Nil],
     [info |-> Nil, err |-> Err("Other", "Decrypt")]}

\* the answers of the collaborators during one resolution.  The calls are made
\* in order and the first failure ends the resolution, so the answers with at
\* most one failure cover every outcome.
ResolveEnvs ==
    {e \in [decrypt : DecryptResults, loaded : BOOLEAN, resolved : BOOLEAN,
            created : BOOLEAN] :
        Cardinality({f \in {"decrypt", "loaded", "resolved", "created"} :
                       IF f = "decrypt" THEN e.decrypt.err # Nil ELSE ~e[f]}) <= 1}

TokenManagers == {[kind |-> "tokenManager"]}

\* `forbidden: User "bob" cannot get path`, shortened
ForbiddenText ==
    <<"f",":"," ","U","s","e","r"," ","\"","b","o","b","\""," ",
      "c","a","n","n","o","t"," ","g","e","t">>

\* "Forbidden"
PlainForbiddenText == <<"F","o","r","b","i","d","d","e","n">>

\* the errors of the cluster: forbidden and naming the user, forbidden and not
\* naming one, and a transport failure
ClusterErrors ==
    {StatusErr("Forbidden", ForbiddenText), StatusErr("Forbidden", PlainForbiddenText),
     StatusErr("Other", <<"t","i","m","e","o","u","t">>)}

\* "system:serviceaccount:kube-system:dashboard"
ServiceAccountName ==
    <<"s","y","s","t","e","m",":","s","e","r","v","i","c","e","a","c","c","o","u","n","t",":",
      "k","u","b","e","-","s","y","s","t","e","m",":","d","a","s","h","b","o","a","r","d">>

\* "dashboard"
DashboardName == <<"d","a","s","h","b","o","a","r","d">>

\* "plain-name"
PlainName == <<"p","l","a","i","n","-","n","a","m","e">>

ReviewedUsernames == {ServiceAccountName, PlainName, EmptyString}

\* the descriptors a caller hands to HasAccess
ProbedAuthInfos ==
    {AuthInfo(BearerToken, EmptyString, <<>>, EmptyMap),
     AuthInfo(EmptyString, EmptyString, <<>>, EmptyMap)}

-----------------------------------------------------------------------------
(* Actions.  Calls are synchronous: the dispatch layer passes a request     *)
(* handle (Dispatch), one public operation of the constructed manager runs *)
(* on it, and `last` holds what it returned until the next Dispatch.       *)

\* the largest pointer a field of m holds
MaxPtr(m) ==
    LET ptrs == {m.inClusterConfig, m.insecureConfig, m.insecureClient,
                 m.insecureAPIExtensionsClient, m.insecurePluginClient}
    IN  CHOOSE p \in ptrs : \A q \in ptrs : q <= p

\* m when the call has returned: the objects no field points to are gone
Collect(m) == [m EXCEPT !.heap = SubSeq(@, 1, MaxPtr(m))]

\* what `last` records of a resolution
Resolved(op, r) ==
    [op |-> op, ptr |-> r.ptr, obj |-> Deref(r), err |-> r.err,
     mode |-> r.mode, info |-> r.info, decrypted |-> r.decrypted]

\* the answers of the collaborators during the three resolutions of
\* VerberClient: the first failure ends the call, so at most one fails
VerberEnvs ==
    {envs \in [1..3 -> ResolveEnvs] :
        Cardinality({i \in 1..3 :
                       \/ envs[i].decrypt.err # Nil
                       \/ ~envs[i].loaded \/ ~envs[i].resolved \/ ~envs[i].created}) <= 1}

\* The answers HasAccess gets, in the order it asks: a collaborator fails before
\* any cluster call; or the server-version call fails; or it succeeds and the
\* token review fails; or both succeed and the review names a user.
AllGood == [decrypt |-> CHOOSE d \in DecryptResults : d.err = Nil,
            loaded |-> TRUE, resolved |-> TRUE, created |-> TRUE]

ProbeAnswers ==
    {[env |-> e, version |-> Nil, review |-> Nil, username |-> EmptyString] :
        e \in {x \in ResolveEnvs : ~(x.loaded /\ x.resolved /\ x.created)}}
    \cup {[env |-> AllGood, version |-> e, review |-> Nil, username |-> EmptyString] :
        e \in ClusterErrors}
    \cup {[env |-> AllGood, version |-> Nil, review |-> e, username |-> EmptyString] :
        e \in ClusterErrors}
    \cup {[env |-> AllGood, version |-> Nil, review |-> Nil, username |-> u] :
        u \in ReviewedUsernames}

\* the dispatch layer starts a call with a request handle (the same as before,
\* another one, or none at all)
Dispatch ==
    /\ pc = "ready"
    /\ request' \in Requests \cup {Nil}
    /\ last' = [op |-> "Dispatch"]
    /\ UNCHANGED <<pc, holder, initTrace, mgrVars>>

\* a call has been started and has not run yet
Called == pc = "ready" /\ last.op = "Dispatch"

DoClient ==
    /\ Called
    /\ \E env \in ResolveEnvs :
         \E r \in {Client(Self, request, holder, env)} :
             /\ Store(Collect(r.m))
             /\ last' = Resolved("Client", r)
    /\ UNCHANGED <<pc, holder, initTrace, request>>

DoAPIExtensionsClient ==
    /\ Called
    /\ \E env \in ResolveEnvs :
         \E r \in {APIExtensionsClient(Self, request, holder, env)} :
             /\ Store(Collect(r.m))
             /\ last' = Resolved("APIExtensionsClient", r)
    /\ UNCHANGED <<pc, holder, initTrace, request>>

DoPluginClient ==
    /\ Called
    /\ \E env \in ResolveEnvs :
         \E r \in {PluginClient(Self, request, holder, env)} :
             /\ Store(Collect(r.m))
             /\ last' = Resolved("PluginClient", r)
    /\ UNCHANGED <<pc, holder, initTrace, request>>

DoConfig ==
    /\ Called
    /\ \E env \in ResolveEnvs :
         \E r \in {Config(Self, request, holder, env)} :
             /\ Store(Collect(r.m))
             /\ last' = Resolved("Config", r)
    /\ UNCHANGED <<pc, holder, initTrace, request>>

DoClientCmdConfig ==
    /\ Called
    /\ \E env \in ResolveEnvs :
         \E r \in {ClientCmdConfig(Self, request, env)} :
             /\ Store(Collect(r.m))
             /\ last' = [op |-> "ClientCmdConfig", cmd |-> r.cmd,
                         err |-> r.err, panic |-> r.panic]
    /\ UNCHANGED <<pc, holder, initTrace, request>>

DoCanI ==
    /\ Called
    /\ \E decrypt \in DecryptResults, env \in ResolveEnvs,
          review \in {"allowed", "denied", "error"} :
         last' = [op |-> "CanI", review |-> review,
                  out |-> CanI(Self, request, holder, decrypt, env, review)]
    /\ UNCHANGED <<pc, holder, initTrace, request, mgrVars>>

DoHasAccess ==
    /\ Called
    /\ \E authInfo \in ProbedAuthInfos, answer \in ProbeAnswers :
         last' = [op |-> "HasAccess", authInfo |-> authInfo, answer |-> answer,
                  out |-> HasAccess(Self, authInfo, answer.env, answer.version,
                                    answer.review, answer.username)]
    /\ UNCHANGED <<pc, holder, initTrace, request, mgrVars>>

DoVerberClient ==
    /\ Called
    /\ \E envs \in VerberEnvs, rest \in BOOLEAN :
         last' = [op |-> "VerberClient",
                  out |-> VerberClient(Self, request, holder, envs, rest)]
    /\ UNCHANGED <<pc, holder, initTrace, request, mgrVars>>

DoSetTokenManager ==
    /\ Called
    /\ \E manager \in TokenManagers \cup {Nil} :
         /\ Store(SetTokenManager(Self, manager))
         /\ last' = [op |-> "SetTokenManager", manager |-> manager]
    /\ UNCHANGED <<pc, holder, initTrace, request>>

\* InsecureClient / InsecureAPIExtensionsClient / InsecurePluginClient /
\* InsecureConfig / CSRFKey: the accessors
DoAccessors ==
    /\ Called
    /\ last' = [op |-> "accessors", client |-> InsecureClient(Self),
                apiextensions |-> InsecureAPIExtensionsClient(Self),
                plugin |-> InsecurePluginClient(Self), config |-> InsecureConfig(Self),
                key |-> CSRFKey(Self)]
    /\ UNCHANGED <<pc, holder, initTrace, request, mgrVars>>

Next ==
    \/ NewClientManager
    \/ Dispatch
    \/ DoClient
    \/ DoAPIExtensionsClient
    \/ DoPluginClient
    \/ DoConfig
    \/ DoClientCmdConfig
    \/ DoCanI
    \/ DoHasAccess
    \/ DoVerberClient
    \/ DoSetTokenManager
    \/ DoAccessors

Spec == Init /\ [][Next]_vars

-----------------------------------------------------------------------------
(* Credential extraction on its own: every header map over the five        *)
(* headers, on a manager with and without a token manager.                 *)

\* a manager of which only the token manager matters, and a request
InitExtract ==
    /\ pc = "extract"
    /\ csrfKey = EmptyString
    /\ kubeConfigPath = EmptyString
    /\ apiserverHost = EmptyString
    /\ inClusterConfig = NilPtr
    /\ tokenManager \in TokenManagers \cup {Nil}
    /\ insecureAPIExtensionsClient = NilPtr
    /\ insecurePluginClient = NilPtr
    /\ insecureClient = NilPtr
    /\ insecureConfig = NilPtr
    /\ heap = <<>>
    /\ holder \in {h \in Holders : ~h.EnableInsecureLogin /\ ~h.EnableSkipLogin
                                   /\ h.CertFile = EmptyString /\ h.KeyFile = EmptyString}
    /\ initTrace = <<>>
    /\ request \in {Request(FALSE, h) : h \in AllHeaders}
    /\ last = NoCall

DoExtractAuthInfo ==
    /\ pc = "extract"
    /\ last = NoCall
    /\ \E decrypt \in DecryptResults :
         last' = [op |-> "extractAuthInfo", decrypt |-> decrypt,
                  out |-> extractAuthInfo(Self, request, decrypt)]
    /\ UNCHANGED <<pc, holder, initTrace, request, mgrVars>>

NextExtract ==
    \/ DoExtractAuthInfo

SpecExtract == InitExtract /\ [][NextExtract]_vars

-----------------------------------------------------------------------------
(* Username parsing on its own: every string of up to MaxNameLen characters *)
(* over a letter, the colon and a character outside the class, and the two *)
(* names of the documentation.                                             *)

MaxNameLen == 9

NameAlphabet == {"a", ":", "!"}

Usernames ==
    UNION {[1..n -> NameAlphabet] : n \in 0..MaxNameLen}
    \cup {ServiceAccountName, PlainName}

InitUsername ==
    /\ pc = "username"
    /\ csrfKey = EmptyString
    /\ kubeConfigPath = EmptyString
    /\ apiserverHost = EmptyString
    /\ inClusterConfig = NilPtr
    /\ tokenManager = Nil
    /\ insecureAPIExtensionsClient = NilPtr
    /\ insecurePluginClient = NilPtr
    /\ insecureClient = NilPtr
    /\ insecureConfig = NilPtr
    /\ heap = <<>>
    /\ holder \in {h \in Holders : ~h.EnableInsecureLogin /\ ~h.EnableSkipLogin
                                   /\ h.CertFile = EmptyString /\ h.KeyFile = EmptyString}
    /\ initTrace = <<>>
    /\ request = Nil
    /\ last \in {[op |-> "username", name |-> n] : n \in Usernames}

DoGetUsername ==
    /\ pc = "username"
    /\ last.op = "username"
    /\ last' = [op |-> "getUsername", name |-> last.name, out |-> getUsername(last.name)]
    /\ UNCHANGED <<pc, holder, initTrace, request, mgrVars>>

NextUsername ==
    \/ DoGetUsername

SpecUsername == InitUsername /\ [][NextUsername]_vars

-----------------------------------------------------------------------------
(* Properties *)

ResolveOps == {"Client", "APIExtensionsClient", "PluginClient", "Config"}

\* the first value of a header of the request being served, "" without one
FirstValue(name) ==
    IF name \in DOMAIN request.Header /\ Len(request.Header[name]) > 0
      THEN request.Header[name][1]
      ELSE EmptyString

\* the request carries a non-empty Authorization or opaque-token header
CarriesCredentialHeader ==
    Len(FirstValue(HdrAuthorization)) > 0 \/ Len(FirstValue(JWETokenHeader)) > 0

\* the request arrived over TLS, or insecure login is allowed
LoginEnabled == request.TLS \/ holder.EnableInsecureLogin

\* the decision the documentation tabulates
DecisionTable ==
    IF ~LoginEnabled THEN "insecure"
    ELSE IF ~holder.EnableSkipLogin THEN "secure"
    ELSE IF CarriesCredentialHeader THEN "secure"
    ELSE "insecure"

SingletonOf(op) ==
    CASE op = "Client" -> insecureClient
      [] op = "APIExtensionsClient" -> insecureAPIExtensionsClient
      [] op = "PluginClient" -> insecurePluginClient
      [] op = "Config" -> insecureConfig

\* the pointers the manager holds
Singletons ==
    {insecureClient, insecureAPIExtensionsClient, insecurePluginClient, insecureConfig,
     inClusterConfig}

\* the identity an object is bound to
IdentityOf(obj) == IF obj.kind = "config" THEN obj.AuthInfo ELSE obj.config.AuthInfo

\* the kind of object a resolve operation builds
BuiltBy(op, obj) ==
    CASE op = "Client" -> obj.kind = "client" /\ obj.family = "kubernetes"
      [] op = "APIExtensionsClient" -> obj.kind = "client" /\ obj.family = "apiextensions"
      [] op = "PluginClient" -> obj.kind = "client" /\ obj.family = "plugin"
      [] op = "Config" -> obj.kind = "config"

\* the errors of extraction, config building and client construction, as those
\* steps return them
StepErrors ==
    {Err("Unauthorized", "extractAuthInfo"), Err("Invalid", "buildConfigFromFlags"),
     Err("Other", "clientcmd"), Err("Other", "cmdConfig.ClientConfig"),
     Err("Other", "NewForConfig")}
    \cup {d.err : d \in {x \in DecryptResults : x.err # Nil}}

\* C2: a nil request yields BadRequest; otherwise the insecure singleton is
\* returned exactly when the decision is insecure, and in secure mode the
\* result is a newly built object bound to the extracted identity or the
\* error of the failing step with no object, never the singleton.
C2_Resolve ==
    last.op \in ResolveOps =>
      IF request = Nil
        THEN last.err = Err("BadRequest", last.op) /\ last.ptr = NilPtr
        ELSE /\ (last.ptr = SingletonOf(last.op)) <=> (DecisionTable = "insecure")
             /\ DecisionTable = "insecure" => last.err = Nil
             /\ DecisionTable = "secure" =>
                  \/ /\ last.err = Nil
                     /\ last.ptr \notin Singletons \cup {NilPtr}
                     /\ last.ptr > Len(heap)
                     /\ BuiltBy(last.op, last.obj)
                     /\ last.info # Nil
                     /\ IdentityOf(last.obj) = last.info
                     /\ Len(extractTokenFromHeader(FirstValue(HdrAuthorization))) > 0
                          => last.info.Token = SliceFrom(FirstValue(HdrAuthorization),
                                                         Len(BearerPrefix))
                  \/ /\ last.err \in StepErrors
                     /\ last.ptr = NilPtr

\* C2 witness: secure mode, extraction failed, and the call returned the
\* Unauthorized error and no object
C2_Witness ==
    /\ last.op \in ResolveOps
    /\ request # Nil
    /\ DecisionTable = "secure"
    /\ last.err = Err("Unauthorized", "extractAuthInfo")
    /\ last.ptr = NilPtr

\* the deployment has TLS certificate material
CertsConfigured == Len(holder.CertFile) > 0 /\ Len(holder.KeyFile) > 0

\* C3: when CanI's extraction fails and the deployment has certificate
\* material, CanI returns denied and submits no review through any client,
\* whatever the login flags; and CanI returns allowed only after a review
\* was submitted and the cluster answered allowed.
C3_FailClosed ==
    last.op = "CanI" =>
      /\ (last.out.extractErr # Nil /\ CertsConfigured) =>
           /\ ~last.out.allowed
           /\ ~last.out.panic
           /\ ~last.out.submitted
           /\ last.out.via = NilPtr
      /\ last.out.allowed => (last.out.submitted /\ last.review = "allowed")

\* C3 witness: extraction failed with certificates configured on a request
\* that insecure mode would have served with the shared identity, and CanI
\* denied
C3_Witness ==
    /\ last.op = "CanI"
    /\ request # Nil
    /\ last.out.extractErr # Nil
    /\ CertsConfigured
    /\ DecisionTable = "insecure"
    /\ last.review = "allowed"
    /\ ~last.out.allowed

\* C4 (as claimed): CanI returns a boolean for every request handle, a nil
\* one included, and a nil handle ends in denied.
C4_NeverRaises ==
    last.op = "CanI" =>
      /\ ~last.out.panic
      /\ request = Nil => ~last.out.allowed

\* the token a bearer Authorization header carries after the prefix
Remainder == SliceFrom(FirstValue(HdrAuthorization), Len(BearerPrefix))

HasBearerPrefix == HasPrefix(FirstValue(HdrAuthorization), BearerPrefix)

OpaquePresent == Len(FirstValue(JWETokenHeader)) > 0

\* extraction took the bearer path: the descriptor carries the remainder and
\* Decrypt was not called
TookBearerPath ==
    /\ last.out.err = Nil
    /\ last.out.info # Nil
    /\ last.out.info.Token = Remainder
    /\ ~last.out.decrypted

\* extraction returned exactly what Decrypt answered
TookDecryptPath ==
    /\ last.out.decrypted
    /\ last.out.info = last.decrypt.info
    /\ last.out.err = last.decrypt.err

FailedUnauthorized ==
    /\ last.out.info = Nil
    /\ last.out.err = Err("Unauthorized", "extractAuthInfo")
    /\ ~last.out.decrypted

\* C5 (as claimed): an Authorization header with the Bearer prefix gives the
\* remainder as token and never calls Decrypt; otherwise an opaque-token header
\* with a collaborator gives Decrypt's result; otherwise Unauthorized.
C5_Original ==
    last.op = "extractAuthInfo" =>
      IF HasBearerPrefix THEN TookBearerPath
      ELSE IF OpaquePresent /\ tokenManager # Nil THEN TookDecryptPath
      ELSE FailedUnauthorized

\* C5 (amended): the bearer path is taken when the Authorization header has
\* the Bearer prefix and a non-empty remainder, and its descriptor has a
\* non-empty token; in every other case (the bare prefix included) an
\* opaque-token header with a collaborator gives Decrypt's result, and
\* anything else Unauthorized.
C5_Precedence ==
    last.op = "extractAuthInfo" =>
      IF HasBearerPrefix /\ Len(Remainder) > 0
        THEN TookBearerPath /\ Len(last.out.info.Token) > 0
      ELSE IF OpaquePresent /\ tokenManager # Nil THEN TookDecryptPath
      ELSE FailedUnauthorized

\* C5 witness: a bearer token and an opaque token on a manager with a
\* collaborator; the bearer token won and Decrypt was not called
C5_Witness ==
    /\ last.op = "extractAuthInfo"
    /\ HasBearerPrefix /\ Len(Remainder) > 0
    /\ OpaquePresent
    /\ tokenManager # Nil
    /\ TookBearerPath

\* "reason"
ReasonKey == <<"r","e","a","s","o","n">>

\* <<"audit", "followup">>
AuditFollowup == <<<<"a","u","d","i","t">>, <<"f","o","l","l","o","w","u","p">>>>

\* the request has the headers Impersonate-Extra-reason: audit and
\* Impersonate-Extra-reason: followup
HasReasonHeaders == MapGet(request.Header, HdrExtraReason) = AuditFollowup

\* the descriptor maps reason to both values, in order
ReasonMapped ==
    /\ ReasonKey \in DOMAIN last.out.info.ImpersonateUserExtra
    /\ last.out.info.ImpersonateUserExtra[ReasonKey] = AuditFollowup

Impersonating ==
    /\ HasBearerPrefix /\ Len(Remainder) > 0
    /\ Len(FirstValue(HdrImpersonateUser)) > 0

Bob == <<"b","o","b">>

\* HasAccess got as far as building its client
ClientBuilt == last.out.config # Nil

\* C7: the token review is submitted only after the server-version call
\* succeeded; a Forbidden version failure returns (name from the error text,
\* that error) and any other (no name, the error); a Forbidden review failure
\* returns (name from the error text, no error) and any other (no name, the
\* error); success returns (the parsed display name, no error); a non-empty
\* name with no error comes only from the last two.
C7_AccessProbe ==
    last.op = "HasAccess" =>
      /\ ("TokenReviews.Create" \in {last.out.calls[i] : i \in DOMAIN last.out.calls}) =>
           (last.answer.version = Nil /\ last.out.calls[1] = "ServerVersion")
      /\ ~ClientBuilt =>
           (last.out.name = EmptyString /\ last.out.err # Nil /\ last.out.calls = <<>>)
      /\ ClientBuilt =>
           IF last.answer.version # Nil
             THEN /\ last.out.err = last.answer.version
                  /\ last.out.calls = <<"ServerVersion">>
                  /\ last.out.name =
                       IF last.answer.version.code = "Forbidden"
                         THEN getUsernameFromError(last.answer.version.text)
                         ELSE EmptyString
                  /\ last.answer.version.text = ForbiddenText => last.out.name = Bob
           ELSE IF last.answer.review # Nil
             THEN /\ last.out.err =
                       IF last.answer.review.code = "Forbidden"
                         THEN Nil ELSE last.answer.review
                  /\ last.out.name =
                       IF last.answer.review.code = "Forbidden"
                         THEN getUsernameFromError(last.answer.review.text)
                         ELSE EmptyString
                  /\ last.answer.review.text = ForbiddenText => last.out.name = Bob
           ELSE /\ last.out.err = Nil
                /\ last.answer.username = ServiceAccountName => last.out.name = DashboardName
                /\ last.answer.username = PlainName => last.out.name = PlainName
                /\ last.answer.username = EmptyString => last.out.name = EmptyString
      /\ (last.out.name # EmptyString /\ last.out.err = Nil) =>
           /\ ClientBuilt
           /\ last.answer.version = Nil
           /\ \/ (last.answer.review # Nil /\ last.answer.review.code = "Forbidden")
              \/ last.answer.review = Nil

\* C7 witness: the version call succeeded, the review was forbidden, and
\* HasAccess returned the user of the error text and no error
C7_Witness ==
    /\ last.op = "HasAccess"
    /\ ClientBuilt
    /\ last.answer.version = Nil
    /\ last.answer.review = StatusErr("Forbidden", ForbiddenText)
    /\ last.out.name = Bob
    /\ last.out.err = Nil

\* the steps of init() among the entries of a trace
StepsOf(trace) ==
    SelectSeq(trace, LAMBDA x : x \in {"initInClusterConfig", "initInsecureClients",
                                       "initCSRFKey"})

\* how often the signing key was written
KeyWrites == Len(SelectSeq(initTrace, LAMBDA x : x = "csrfKey set"))

\* C8: init() runs the in-cluster load, the insecure config and clients, and
\* the signing key in that order; a failed in-cluster load does not stop it;
\* a failure in the second step panics before any key is written; a manager
\* is returned only with config, three clients and key set; with both
\* bootstrap parameters empty and no in-cluster config, construction panics
\* with the invalid-configuration error.
C8_Construction ==
    /\ pc = "start" => initTrace = <<>>
    /\ pc = "ready" =>
         /\ StepsOf(initTrace) = <<"initInClusterConfig", "initInsecureClients", "initCSRFKey">>
         /\ insecureConfig # NilPtr
         /\ insecureClient # NilPtr
         /\ insecureAPIExtensionsClient # NilPtr
         /\ insecurePluginClient # NilPtr
         /\ heap[insecureConfig].kind = "config"
         /\ heap[insecureClient].family = "kubernetes"
         /\ heap[insecureAPIExtensionsClient].family = "apiextensions"
         /\ heap[insecurePluginClient].family = "plugin"
         /\ KeyWrites = 1
         /\ csrfKey # EmptyString
    /\ pc = "panicked" =>
         /\ StepsOf(initTrace) = <<"initInClusterConfig", "initInsecureClients">>
         /\ KeyWrites = 0
         /\ csrfKey = EmptyString
         /\ insecureClient = NilPtr
         /\ insecureAPIExtensionsClient = NilPtr
         /\ insecurePluginClient = NilPtr
         /\ last.panic # Nil
    /\ (pc \in {"ready", "panicked"} /\ kubeConfigPath = EmptyString
          /\ apiserverHost = EmptyString /\ inClusterConfig = NilPtr) =>
         /\ pc = "panicked"
         /\ last.panic = Err("Invalid", "buildConfigFromFlags")

\* C8 witness: both bootstrap parameters empty, the in-cluster load failed,
\* and construction panicked with the invalid-configuration error
C8_Witness ==
    /\ pc = "panicked"
    /\ kubeConfigPath = EmptyString
    /\ apiserverHost = EmptyString
    /\ ~last.inClusterLoaded
    /\ last.panic = Err("Invalid", "buildConfigFromFlags")
    /\ KeyWrites = 0

\* C9: once the manager is constructed, no public operation writes the
\* insecure clients, the insecure config, the in-cluster config, the objects
\* they point to or the signing key; the key was written once, and the
\* accessors return the fields.
C9_Singletons ==
    /\ [](pc = "ready" =>
            /\ KeyWrites = 1
            /\ last.op = "accessors" =>
                 /\ last.client = insecureClient
                 /\ last.apiextensions = insecureAPIExtensionsClient
                 /\ last.plugin = insecurePluginClient
                 /\ last.config = insecureConfig
                 /\ last.key = csrfKey)
    /\ [][pc = "ready" =>
            /\ insecureClient' = insecureClient
            /\ insecureAPIExtensionsClient' = insecureAPIExtensionsClient
            /\ insecurePluginClient' = insecurePluginClient
            /\ insecureConfig' = insecureConfig
            /\ inClusterConfig' = inClusterConfig
            /\ heap' = heap
            /\ csrfKey' = csrfKey
            /\ initTrace' = initTrace]_vars

\* C9 witness: a secure client was built for a request, and the insecure
\* client is still the one of construction
C9_Witness ==
    /\ pc = "ready"
    /\ last.op = "Client"
    /\ last.mode = "secure"
    /\ last.err = Nil
    /\ last.ptr # insecureClient
    /\ insecureClient = Len(heap) - 2
    /\ KeyWrites = 1

\* s is one run of class characters
IsSegment(s) == Len(s) > 0 /\ \A i \in 1..Len(s) : WordOrDash(s[i])

\* the positions of the colons of s
Colons(s) == {i \in 1..Len(s) : s[i] = ":"}

\* s has the structured shape: four segments separated by three colons
IsStructured(s) ==
    /\ Cardinality(Colons(s)) = 3
    /\ \E i, j, k \in Colons(s) :
         /\ i < j /\ j < k
         /\ IsSegment(SubSeq(s, 1, i - 1))
         /\ IsSegment(SubSeq(s, i + 1, j - 1))
         /\ IsSegment(SubSeq(s, j + 1, k - 1))
         /\ IsSegment(SubSeq(s, k + 1, Len(s)))

\* the fourth segment of a structured name
FourthSegment(s) ==
    SubSeq(s, (CHOOSE k \in Colons(s) : \A i \in Colons(s) : i <= k) + 1, Len(s))

\* C10 (as claimed): getUsername returns the fourth segment of a name of the
\* structured shape and every other name as it is.
C10_Username ==
    last.op = "getUsername" =>
      last.out = IF IsStructured(last.name) THEN FourthSegment(last.name) ELSE last.name

\* cfg has the four tuning defaults, and neither limit is zero
Tuned(cfg) ==
    /\ cfg.QPS = DefaultQPS /\ cfg.QPS # 0
    /\ cfg.Burst = DefaultBurst /\ cfg.Burst # 0
    /\ cfg.ContentType = DefaultContentType
    /\ cfg.UserAgent = <<DefaultUserAgent, "/", Version>>

\* the config of an object a resolve operation returned
ConfigOf(obj) == IF obj.kind = "config" THEN obj ELSE obj.config

\* the insecure config and the configs the three insecure clients were built
\* from have the defaults
SingletonsTuned ==
    pc = "ready" =>
      /\ Tuned(heap[insecureConfig])
      /\ Tuned(heap[insecureClient].config)
      /\ Tuned(heap[insecureAPIExtensionsClient].config)
      /\ Tuned(heap[insecurePluginClient].config)

\* every config or client a resolve operation returned, secure or insecure,
\* has the defaults
ResolvedTuned ==
    (last.op \in ResolveOps /\ last.obj # Nil) => Tuned(ConfigOf(last.obj))

\* the config HasAccess built its client from has the defaults
ProbeTuned ==
    (last.op = "HasAccess" /\ last.out.config # Nil) => Tuned(last.out.config)

\* C11 (as claimed): every config that reaches a client constructor or a
\* caller has the tuning defaults (QPS and Burst at the non-zero defaults,
\* protobuf content type, user agent dashboard/<version>): the insecure
\* singleton config, every secure per-request config, and the config HasAccess
\* builds before it constructs its client.
C11_TuningDefaults == SingletonsTuned /\ ResolvedTuned /\ ProbeTuned

====
